---------------------------- MODULE Spec2Model ----------------------------
(***************************************************************************)
(* The Page subsystem of plane's persistence layer                         *)
(* (apiserver/plane/db/models/page.py): the tables pages, page_versions,   *)
(* page_blocks, page_logs, page_labels, project_pages and team_pages, the  *)
(* save() overrides of Page, PageBlock and PageVersion, and the uniqueness *)
(* constraints the Meta classes declare.                                   *)
(*                                                                         *)
(* A table is a sequence of rows in insertion order (a row's primary key   *)
(* is its index).  Text is a sequence of one-character strings.  Python's  *)
(* None / SQL NULL is NoneText for a text column, NoneNum for a number or  *)
(* a timestamp and None for a foreign key.                                 *)
(***************************************************************************)
EXTENDS Integers, Sequences, FiniteSets, TLC

VARIABLES
    pages,          \* table pages: [Pages -> row]
    page_versions,  \* table page_versions
    page_blocks,    \* table page_blocks
    issues,         \* table issues: [Issues -> state id]
    page_logs,      \* table page_logs
    page_labels,    \* table page_labels
    project_pages,  \* table project_pages
    team_pages,     \* table team_pages
    creators,       \* requests in the middle of PageBlock.save()
    last            \* the last call: what was called and how it ended

vars == <<pages, page_versions, page_blocks, issues, page_logs, page_labels,
          project_pages, team_pages, creators, last>>

-----------------------------------------------------------------------------
(* Values *)

None == "None"
NoneText == <<"None">>
NoneNum == -1

Projects == {"p1", "p2"}
Pages == {"g1", "g2"}
Teams == {"t1", "t2"}
Labels == {"l1", "l2"}
Issues == {"i1", "i2"}
Transactions == {"x1", "x2", "x3"}
Times == {1, 2}
Requests == {"r1", "r2"}

\* TextField(blank=True, default="<p></p>")
DefaultHtml == <<"<", "p", ">", "<", "/", "p", ">">>

\* FloatField(default=65535)
DefaultSortOrder == 65535

\* largest_sort_order + 10000
SortOrderStep == 10000

\* "", "<p></p>", "<p>H<b>w</b></p>" and None
HtmlInputs ==
    { <<>>,
      DefaultHtml,
      <<"<", "p", ">", "H", "<", "b", ">", "w", "<", "/", "b", ">",
        "<", "/", "p", ">">>,
      NoneText }

\* what a caller may have put in description_stripped before save()
StrippedInputs == { NoneText, <<"x">> }

\* what a caller may have put in sort_order before save()
SortInputs == { DefaultSortOrder, 5 }

\* (completed_at, issue) of a block as the caller set them
CompletionInputs == { <<NoneNum, None>>, <<1, "i1">> }

\* the states table: project p1 has a state of group "completed", p2 has none
StateTable ==
    { [id |-> "s1", project |-> "p1", group |-> "started"],
      [id |-> "s2", project |-> "p1", group |-> "completed"],
      [id |-> "s3", project |-> "p2", group |-> "started"] }

MaxVersions == 1
MaxBlocks == 2
MaxLogs == 3
MaxLinks == 2
MaxRacingBlocks == 3

-----------------------------------------------------------------------------
(* plane.utils.html_processor.strip_tags: the text outside the tags *)

RECURSIVE StripFrom(_, _, _)
StripFrom(html, i, in_tag) ==
    IF i > Len(html) THEN <<>>
    ELSE IF html[i] = "<" THEN StripFrom(html, i + 1, TRUE)
    ELSE IF html[i] = ">" /\ in_tag THEN StripFrom(html, i + 1, FALSE)
    ELSE IF in_tag THEN StripFrom(html, i + 1, TRUE)
    ELSE <<html[i]>> \o StripFrom(html, i + 1, FALSE)

strip_tags(html) == StripFrom(html, 1, FALSE)

\* a PageBlock instance as its caller built it
NewBlock(project, page, html, stripped, sort_order, completion) ==
    [project |-> project, page |-> page,
     description_html |-> html, description_stripped |-> stripped,
     issue |-> completion[2], completed_at |-> completion[1],
     sort_order |-> sort_order]

NoBlock == NewBlock(None, None, NoneText, NoneText, NoneNum, <<NoneNum, None>>)

NoKey == <<None, None>>

\* a call as the caller sees it: the operation, how it ended ("ok" or the
\* exception raised), for a PageBlock save the project, page, issue,
\* completed_at and sort_order of the instance as the caller handed it over, and
\* for a link or a log entry the pair of keys it was made with
Call(op, outcome, self, key) ==
    [op |-> op, outcome |-> outcome,
     self |-> [project |-> self.project, page |-> self.page,
               issue |-> self.issue, completed_at |-> self.completed_at,
               sort_order |-> self.sort_order],
     key |-> key]


-----------------------------------------------------------------------------
(* Page.save and PageVersion.save *)

\* description_html is a TextField without null=True: the column is NOT NULL
NotNullOK(self) == self.description_html # NoneText

\* Page.save's caller values drift in unchanged: a save that keeps a supplied value
PageDerived_KeepsSupplied(self) ==
    IF self.description_stripped # NoneText THEN self
    ELSE [self EXCEPT !.description_stripped =
            IF self.description_html = <<>> \/ self.description_html = NoneText
            THEN NoneText ELSE strip_tags(self.description_html)]

\* Page.save: self.description_stripped = None if html in ("", None) else strip_tags(html)
PageDerived(self) ==
    [self EXCEPT !.description_stripped =
        IF self.description_html = <<>> \/ self.description_html = NoneText
        THEN NoneText
        ELSE strip_tags(self.description_html)]

\* PageVersion.save: the same assignment
PageVersionDerived(self) ==
    [self EXCEPT !.description_stripped =
        IF self.description_html = <<>> \/ self.description_html = NoneText
        THEN NoneText
        ELSE strip_tags(self.description_html)]

\* page.description_html = html; page.description_stripped = stripped; page.save()
PageSave(page, html, stripped) ==
    LET self == PageDerived([description_html |-> html,
                             description_stripped |-> stripped])
    IN  /\ IF NotNullOK(self)
           THEN /\ pages' = [pages EXCEPT ![page] = self]
                /\ last' = Call("Page.save", "ok", NoBlock, NoKey)
           ELSE /\ UNCHANGED pages
                /\ last' = Call("Page.save", "IntegrityError", NoBlock, NoKey)
        /\ UNCHANGED <<page_versions, page_blocks, issues, page_logs,
                       page_labels, project_pages, team_pages, creators>>

\* PageVersion(page=page, description_html=html, description_stripped=stripped).save()
PageVersionCreate(page, html, stripped) ==
    LET self == PageVersionDerived([page |-> page,
                                    description_html |-> html,
                                    description_stripped |-> stripped])
    IN  /\ Len(page_versions) < MaxVersions
        /\ IF NotNullOK(self)
           THEN /\ page_versions' = Append(page_versions, self)
                /\ last' = Call("PageVersion.create", "ok", NoBlock, NoKey)
           ELSE /\ UNCHANGED page_versions
                /\ last' = Call("PageVersion.create", "IntegrityError", NoBlock, NoKey)
        /\ UNCHANGED <<pages, page_blocks, issues, page_logs, page_labels,
                       project_pages, team_pages, creators>>

\* a stored version, changed by the caller and saved again
PageVersionUpdate(i, html, stripped) ==
    LET self == PageVersionDerived([page_versions[i] EXCEPT
                                      !.description_html = html,
                                      !.description_stripped = stripped])
    IN  /\ i \in DOMAIN page_versions
        /\ IF NotNullOK(self)
           THEN /\ page_versions' = [page_versions EXCEPT ![i] = self]
                /\ last' = Call("PageVersion.update", "ok", NoBlock, NoKey)
           ELSE /\ UNCHANGED page_versions
                /\ last' = Call("PageVersion.update", "IntegrityError", NoBlock, NoKey)
        /\ UNCHANGED <<pages, page_blocks, issues, page_logs, page_labels,
                       project_pages, team_pages, creators>>

-----------------------------------------------------------------------------
(* PageBlock.save *)

\* a filter on the project alone
Siblings_ProjectOnly(blocks, project, page) ==
    { i \in DOMAIN blocks : blocks[i].project = project }

\* the rows of PageBlock.objects.filter(project=project, page=page)
Siblings(blocks, project, page) ==
    { i \in DOMAIN blocks : blocks[i].project = project /\ blocks[i].page = page }

\* .aggregate(largest=models.Max("sort_order"))["largest"]; None on no rows
LargestSortOrder(blocks, project, page) ==
    LET sib == Siblings(blocks, project, page)
    IN  IF sib = {} THEN NoneNum
        ELSE LET top == CHOOSE i \in sib :
                          \A j \in sib : blocks[j].sort_order <= blocks[i].sort_order
             IN  blocks[top].sort_order

\* a save that takes the largest sort_order as it is
AssignSortOrder_NoStep(self, adding, largest) ==
    IF adding /\ largest # NoneNum
    THEN [self EXCEPT !.sort_order = largest]
    ELSE self

\* if self._state.adding: ... if largest_sort_order is not None: self.sort_order = largest + 10000
AssignSortOrder(self, adding, largest) ==
    IF adding /\ largest # NoneNum
    THEN [self EXCEPT !.sort_order = largest + SortOrderStep]
    ELSE self

\* PageBlock.save: the description_stripped assignment
PageBlockDerived(self) ==
    [self EXCEPT !.description_stripped =
        IF self.description_html = <<>> \/ self.description_html = NoneText
        THEN NoneText
        ELSE strip_tags(self.description_html)]

\* State.objects.filter(group="completed", project=project).first(): the id, or None
CompletedState(project) ==
    LET found == { s \in StateTable : s.group = "completed" /\ s.project = project }
    IN  IF found = {} THEN None ELSE (CHOOSE s \in found : TRUE).id

\* Issue.objects.update(pk=issue, state=state): Manager.update(**kwargs) takes the
\* keyword names as columns to assign in every row of the table, it filters
\* nothing; "pk" names no column of Issue, and the call raises FieldDoesNotExist
\* before any row is written.
IssueObjectsUpdate(table, issue, state) ==
    [raised |-> "FieldDoesNotExist", table |-> table]

\* if self.completed_at and self.issue: try: ... except ImportError: pass
\* (plane.db.models is the package this module is part of: the import succeeds)
CompletionEffect(self, table) ==
    IF self.completed_at # NoneNum /\ self.issue # None
    THEN IF CompletedState(self.project) # None
         THEN IssueObjectsUpdate(table, self.issue, CompletedState(self.project))
         ELSE [raised |-> None, table |-> table]
    ELSE [raised |-> None, table |-> table]

\* the body of PageBlock.save once the aggregate query has answered `largest`
PageBlockSave(self, adding, i, largest, op) ==
    LET ordered == AssignSortOrder(self, adding, largest)
        derived == PageBlockDerived(ordered)
        effect == CompletionEffect(derived, issues)
    IN  IF effect.raised # None
        THEN /\ last' = Call(op, effect.raised, self, NoKey)
             /\ UNCHANGED <<page_blocks, issues>>
        ELSE IF ~NotNullOK(derived)
        THEN /\ last' = Call(op, "IntegrityError", self, NoKey)
             /\ UNCHANGED <<page_blocks, issues>>
        ELSE /\ page_blocks' = IF adding THEN Append(page_blocks, derived)
                               ELSE [page_blocks EXCEPT ![i] = derived]
             /\ issues' = effect.table
             /\ last' = Call(op, "ok", self, NoKey)

\* PageBlock(project=..., page=..., ...).save(), alone on the database
BlockCreate(project, page, html, stripped, sort_order, completion) ==
    /\ Len(page_blocks) < MaxBlocks
    /\ PageBlockSave(NewBlock(project, page, html, stripped, sort_order, completion),
                     TRUE, 0, LargestSortOrder(page_blocks, project, page),
                     "PageBlock.create")
    /\ UNCHANGED <<pages, page_versions, page_logs, page_labels,
                   project_pages, team_pages, creators>>

\* a stored block, changed by the caller and saved again
BlockUpdate(i, html, stripped, sort_order, completion) ==
    /\ i \in DOMAIN page_blocks
    /\ PageBlockSave([page_blocks[i] EXCEPT
                        !.description_html = html,
                        !.description_stripped = stripped,
                        !.sort_order = sort_order,
                        !.completed_at = completion[1],
                        !.issue = completion[2]],
                     FALSE, i,
                     LargestSortOrder(page_blocks, page_blocks[i].project,
                                      page_blocks[i].page),
                     "PageBlock.update")
    /\ UNCHANGED <<pages, page_versions, page_logs, page_labels,
                   project_pages, team_pages, creators>>


-----------------------------------------------------------------------------
(* PageBlock.save under concurrent requests: the aggregate query and the
   INSERT are two statements, and nothing holds a lock between them *)

Idle == [pc |-> "idle", self |-> NoBlock, largest |-> NoneNum]

InFlight == Cardinality({ r \in Requests : creators[r].pc = "queried" })

\* request r enters PageBlock.save and runs the aggregate query
CreateBegin(r, project, page, sort_order, completion) ==
    /\ creators[r].pc = "idle"
    /\ Len(page_blocks) + InFlight < MaxRacingBlocks
    /\ creators' = [creators EXCEPT ![r] =
          [pc |-> "queried",
           self |-> NewBlock(project, page, DefaultHtml, NoneText, sort_order,
                             completion),
           largest |-> LargestSortOrder(page_blocks, project, page)]]
    /\ UNCHANGED <<pages, page_versions, page_blocks, issues, page_logs,
                   page_labels, project_pages, team_pages, last>>

\* a save that would take the largest sort_order again when it inserts
CreateFinish_Serialized(r) ==
    /\ creators[r].pc = "queried"
    /\ PageBlockSave(creators[r].self, TRUE, 0,
                     LargestSortOrder(page_blocks, creators[r].self.project,
                                      creators[r].self.page),
                     "PageBlock.create")
    /\ creators' = [creators EXCEPT ![r] = Idle]
    /\ UNCHANGED <<pages, page_versions, page_logs, page_labels,
                   project_pages, team_pages>>

\* request r runs the rest of PageBlock.save with the answer it got
CreateFinish(r) ==
    /\ creators[r].pc = "queried"
    /\ PageBlockSave(creators[r].self, TRUE, 0, creators[r].largest,
                     "PageBlock.create")
    /\ creators' = [creators EXCEPT ![r] = Idle]
    /\ UNCHANGED <<pages, page_versions, page_logs, page_labels,
                   project_pages, team_pages>>

-----------------------------------------------------------------------------
(* PageLog *)

\* PageLog.Meta without unique_together
PageLogConstraints_None(rows) == TRUE

\* unique_together = ["page", "transaction"]
PageLogConstraints(rows) ==
    \A i, j \in DOMAIN rows :
        i # j => ~(rows[i].page = rows[j].page
                   /\ rows[i].transaction = rows[j].transaction)

\* PageLog(page=page, transaction=transaction, ...).save()
PageLogCreate(page, transaction) ==
    LET rows == Append(page_logs, [page |-> page, transaction |-> transaction,
                                   deleted_at |-> NoneNum])
    IN  /\ Len(page_logs) < MaxLogs
        /\ IF PageLogConstraints(rows)
           THEN /\ page_logs' = rows
                /\ last' = Call("PageLog.create", "ok", NoBlock, <<page, transaction>>)
           ELSE /\ UNCHANGED page_logs
                /\ last' = Call("PageLog.create", "IntegrityError", NoBlock,
                                <<page, transaction>>)
        /\ UNCHANGED <<pages, page_versions, page_blocks, issues, page_labels,
                       project_pages, team_pages, creators>>

\* log.delete(): the base model's soft delete stamps deleted_at and saves
PageLogSoftDelete(i, t) ==
    LET rows == [page_logs EXCEPT ![i].deleted_at = t]
    IN  /\ i \in DOMAIN page_logs
        /\ page_logs[i].deleted_at = NoneNum
        /\ IF PageLogConstraints(rows)
           THEN /\ page_logs' = rows
                /\ last' = Call("PageLog.soft_delete", "ok", NoBlock,
                                <<page_logs[i].page, page_logs[i].transaction>>)
           ELSE /\ UNCHANGED page_logs
                /\ last' = Call("PageLog.soft_delete", "IntegrityError", NoBlock,
                                <<page_logs[i].page, page_logs[i].transaction>>)
        /\ UNCHANGED <<pages, page_versions, page_blocks, issues, page_labels,
                       project_pages, team_pages, creators>>

-----------------------------------------------------------------------------
(* PageLabel, ProjectPage, TeamPage *)

\* PageLabel.Meta with the conditional UniqueConstraint of its two neighbours
PageLabelConstraints_UniqueWhenActive(rows) ==
    \A i, j \in DOMAIN rows :
        (i # j /\ rows[i].deleted_at = NoneNum /\ rows[j].deleted_at = NoneNum)
            => ~(rows[i].label = rows[j].label /\ rows[i].page = rows[j].page)

\* PageLabel.Meta declares neither unique_together nor constraints
PageLabelConstraints(rows) == TRUE

\* ProjectPage.Meta without the conditional UniqueConstraint
ProjectPageConstraints_UniqueTogetherOnly(rows) ==
    \A i, j \in DOMAIN rows :
        i # j => ~(rows[i].project = rows[j].project
                   /\ rows[i].page = rows[j].page
                   /\ rows[i].deleted_at # NoneNum
                   /\ rows[i].deleted_at = rows[j].deleted_at)

\* ProjectPage.Meta: unique_together = ["project", "page", "deleted_at"] (a
\* unique index holds NULLs apart, so it binds rows with a deleted_at only) and
\* UniqueConstraint(fields=["project", "page"], condition=Q(deleted_at__isnull=True))
ProjectPageConstraints(rows) ==
    /\ \A i, j \in DOMAIN rows :
          i # j => ~(rows[i].project = rows[j].project
                     /\ rows[i].page = rows[j].page
                     /\ rows[i].deleted_at # NoneNum
                     /\ rows[i].deleted_at = rows[j].deleted_at)
    /\ \A i, j \in DOMAIN rows :
          (i # j /\ rows[i].deleted_at = NoneNum /\ rows[j].deleted_at = NoneNum)
              => ~(rows[i].project = rows[j].project /\ rows[i].page = rows[j].page)

\* TeamPage.Meta: unique_together = ["team", "page", "deleted_at"] and
\* UniqueConstraint(fields=["team", "page"], condition=Q(deleted_at__isnull=True))
TeamPageConstraints(rows) ==
    /\ \A i, j \in DOMAIN rows :
          i # j => ~(rows[i].team = rows[j].team
                     /\ rows[i].page = rows[j].page
                     /\ rows[i].deleted_at # NoneNum
                     /\ rows[i].deleted_at = rows[j].deleted_at)
    /\ \A i, j \in DOMAIN rows :
          (i # j /\ rows[i].deleted_at = NoneNum /\ rows[j].deleted_at = NoneNum)
              => ~(rows[i].team = rows[j].team /\ rows[i].page = rows[j].page)

LinkRows == Len(page_labels) + Len(project_pages) + Len(team_pages)

\* PageLabel(label=label, page=page, ...).save()
PageLabelCreate(label, page) ==
    LET rows == Append(page_labels, [label |-> label, page |-> page,
                                     deleted_at |-> NoneNum])
    IN  /\ LinkRows < MaxLinks
        /\ IF PageLabelConstraints(rows)
           THEN /\ page_labels' = rows
                /\ last' = Call("PageLabel.create", "ok", NoBlock, <<label, page>>)
           ELSE /\ UNCHANGED page_labels
                /\ last' = Call("PageLabel.create", "IntegrityError", NoBlock,
                                <<label, page>>)
        /\ UNCHANGED <<pages, page_versions, page_blocks, issues, page_logs,
                       project_pages, team_pages, creators>>

\* page_label.delete() at wall-clock time t
PageLabelSoftDelete(i, t) ==
    LET rows == [page_labels EXCEPT ![i].deleted_at = t]
    IN  /\ i \in DOMAIN page_labels
        /\ page_labels[i].deleted_at = NoneNum
        /\ IF PageLabelConstraints(rows)
           THEN /\ page_labels' = rows
                /\ last' = Call("PageLabel.soft_delete", "ok", NoBlock,
                                <<page_labels[i].label, page_labels[i].page>>)
           ELSE /\ UNCHANGED page_labels
                /\ last' = Call("PageLabel.soft_delete", "IntegrityError", NoBlock,
                                <<page_labels[i].label, page_labels[i].page>>)
        /\ UNCHANGED <<pages, page_versions, page_blocks, issues, page_logs,
                       project_pages, team_pages, creators>>

\* ProjectPage(project=project, page=page, ...).save()
ProjectPageCreate(project, page) ==
    LET rows == Append(project_pages, [project |-> project, page |-> page,
                                       deleted_at |-> NoneNum])
    IN  /\ LinkRows < MaxLinks
        /\ IF ProjectPageConstraints(rows)
           THEN /\ project_pages' = rows
                /\ last' = Call("ProjectPage.create", "ok", NoBlock, <<project, page>>)
           ELSE /\ UNCHANGED project_pages
                /\ last' = Call("ProjectPage.create", "IntegrityError", NoBlock,
                                <<project, page>>)
        /\ UNCHANGED <<pages, page_versions, page_blocks, issues, page_logs,
                       page_labels, team_pages, creators>>

\* project_page.delete() at wall-clock time t
ProjectPageSoftDelete(i, t) ==
    LET rows == [project_pages EXCEPT ![i].deleted_at = t]
    IN  /\ i \in DOMAIN project_pages
        /\ project_pages[i].deleted_at = NoneNum
        /\ IF ProjectPageConstraints(rows)
           THEN /\ project_pages' = rows
                /\ last' = Call("ProjectPage.soft_delete", "ok", NoBlock,
                                <<project_pages[i].project, project_pages[i].page>>)
           ELSE /\ UNCHANGED project_pages
                /\ last' = Call("ProjectPage.soft_delete", "IntegrityError", NoBlock,
                                <<project_pages[i].project, project_pages[i].page>>)
        /\ UNCHANGED <<pages, page_versions, page_blocks, issues, page_logs,
                       page_labels, team_pages, creators>>

\* TeamPage(team=team, page=page, ...).save()
TeamPageCreate(team, page) ==
    LET rows == Append(team_pages, [team |-> team, page |-> page,
                                    deleted_at |-> NoneNum])
    IN  /\ LinkRows < MaxLinks
        /\ IF TeamPageConstraints(rows)
           THEN /\ team_pages' = rows
                /\ last' = Call("TeamPage.create", "ok", NoBlock, <<team, page>>)
           ELSE /\ UNCHANGED team_pages
                /\ last' = Call("TeamPage.create", "IntegrityError", NoBlock,
                                <<team, page>>)
        /\ UNCHANGED <<pages, page_versions, page_blocks, issues, page_logs,
                       page_labels, project_pages, creators>>

\* team_page.delete() at wall-clock time t
TeamPageSoftDelete(i, t) ==
    LET rows == [team_pages EXCEPT ![i].deleted_at = t]
    IN  /\ i \in DOMAIN team_pages
        /\ team_pages[i].deleted_at = NoneNum
        /\ IF TeamPageConstraints(rows)
           THEN /\ team_pages' = rows
                /\ last' = Call("TeamPage.soft_delete", "ok", NoBlock,
                                <<team_pages[i].team, team_pages[i].page>>)
           ELSE /\ UNCHANGED team_pages
                /\ last' = Call("TeamPage.soft_delete", "IntegrityError", NoBlock,
                                <<team_pages[i].team, team_pages[i].page>>)
        /\ UNCHANGED <<pages, page_versions, page_blocks, issues, page_logs,
                       page_labels, project_pages, creators>>

-----------------------------------------------------------------------------
(* Specifications *)

\* every page saved once with the field defaults, the other tables empty
Init ==
    /\ pages = [p \in Pages |-> PageDerived([description_html |-> DefaultHtml,
                                             description_stripped |-> NoneText])]
    /\ page_versions = <<>>
    /\ page_blocks = <<>>
    /\ issues = [i \in Issues |-> IF i = "i1" THEN "s1" ELSE "s3"]
    /\ page_logs = <<>>
    /\ page_labels = <<>>
    /\ project_pages = <<>>
    /\ team_pages = <<>>
    /\ creators = [r \in Requests |-> Idle]
    /\ last = Call("none", "ok", NoBlock, NoKey)

\* saves of the three classes that carry description_html
PageSaves ==
    \E html \in HtmlInputs, stripped \in StrippedInputs :
        PageSave("g1", html, stripped)

PageVersionCreates ==
    \E html \in HtmlInputs, stripped \in StrippedInputs :
        PageVersionCreate("g1", html, stripped)

PageVersionUpdates ==
    \E i \in DOMAIN page_versions, html \in HtmlInputs, stripped \in StrippedInputs :
        PageVersionUpdate(i, html, stripped)

\* blocks with a completion time and an issue: in p1 (a completed state exists)
\* and in p2 (none does)
DocBlockCreates ==
    \E html \in HtmlInputs, stripped \in StrippedInputs, project \in Projects :
        BlockCreate(project, "g1", html, stripped, DefaultSortOrder, <<1, "i1">>)

DocBlockUpdates ==
    \E i \in DOMAIN page_blocks, html \in HtmlInputs, stripped \in StrippedInputs :
        BlockUpdate(i, html, stripped, page_blocks[i].sort_order,
                    <<page_blocks[i].completed_at, page_blocks[i].issue>>)

Next ==
    \/ PageSaves
    \/ PageVersionCreates
    \/ PageVersionUpdates
    \/ DocBlockCreates
    \/ DocBlockUpdates

Spec == Init /\ [][Next]_vars

\* block saves, one request at a time
BlockCreates ==
    \E project \in Projects, page \in Pages, sort_order \in SortInputs,
       completion \in CompletionInputs :
        BlockCreate(project, page, DefaultHtml, NoneText, sort_order, completion)

BlockUpdates ==
    \E i \in DOMAIN page_blocks,
       sort_order \in SortInputs,
       completion \in CompletionInputs :
        BlockUpdate(i, DefaultHtml, NoneText, sort_order, completion)

NextBlocks == BlockCreates \/ BlockUpdates

SpecBlocks == Init /\ [][NextBlocks]_vars

\* block creations only, one request at a time
NextCreations == BlockCreates

SpecCreations == Init /\ [][NextCreations]_vars

\* block creations by concurrent requests
CreateBegins ==
    \E r \in Requests, project \in Projects,
       sort_order \in SortInputs, completion \in CompletionInputs :
        CreateBegin(r, project, "g1", sort_order, completion)

CreateFinishes == \E r \in Requests : CreateFinish(r)

NextConcurrent == CreateBegins \/ CreateFinishes

SpecConcurrent == Init /\ [][NextConcurrent]_vars

\* the activity log
PageLogCreates ==
    \E page \in Pages, transaction \in Transactions : PageLogCreate(page, transaction)

PageLogSoftDeletes ==
    \E i \in DOMAIN page_logs, t \in Times : PageLogSoftDelete(i, t)

NextLogs == PageLogCreates \/ PageLogSoftDeletes

SpecLogs == Init /\ [][NextLogs]_vars

\* the association tables
PageLabelCreates ==
    \E label \in Labels, page \in Pages : PageLabelCreate(label, page)

PageLabelSoftDeletes ==
    \E i \in DOMAIN page_labels, t \in Times : PageLabelSoftDelete(i, t)

ProjectPageCreates ==
    \E project \in Projects, page \in Pages : ProjectPageCreate(project, page)

ProjectPageSoftDeletes ==
    \E i \in DOMAIN project_pages, t \in Times : ProjectPageSoftDelete(i, t)

TeamPageCreates ==
    \E team \in Teams, page \in Pages : TeamPageCreate(team, page)

TeamPageSoftDeletes ==
    \E i \in DOMAIN team_pages, t \in Times : TeamPageSoftDelete(i, t)

NextLinks ==
    \/ PageLabelCreates
    \/ PageLabelSoftDeletes
    \/ ProjectPageCreates
    \/ ProjectPageSoftDeletes
    \/ TeamPageCreates
    \/ TeamPageSoftDeletes

SpecLinks == Init /\ [][NextLinks]_vars


-----------------------------------------------------------------------------
(* Properties *)

BlockOps == {"PageBlock.create", "PageBlock.update"}

SameKey(a, b) == a.project = b.project /\ a.page = b.page

\* the stored description_stripped is the one description_html determines
DerivedOK(row) ==
    IF row.description_html = <<>> \/ row.description_html = NoneText
    THEN row.description_stripped = NoneText
    ELSE row.description_stripped = strip_tags(row.description_html)

\* C1: in every page, page version and page block stored, description_stripped
\* is strip_tags(description_html) when description_html is non-empty and null
\* when it is "" or null, whatever description_stripped the caller had set.
C1_DescriptionStrippedDerived ==
    /\ \A p \in Pages : DerivedOK(pages[p])
    /\ \A i \in DOMAIN page_versions : DerivedOK(page_versions[i])
    /\ \A i \in DOMAIN page_blocks : DerivedOK(page_blocks[i])

\* C1 witness: a page saved with "<p>H<b>w</b></p>" holds "Hw", beside a version
\* saved with "" that holds null and a block saved with "<p></p>" that holds "".
C1_Witness ==
    /\ last.op = "Page.save" /\ last.outcome = "ok"
    /\ pages["g1"].description_stripped = <<"H", "w">>
    /\ \E i \in DOMAIN page_versions :
          /\ page_versions[i].description_html = <<>>
          /\ page_versions[i].description_stripped = NoneText
    /\ \E i \in DOMAIN page_blocks :
          /\ page_blocks[i].description_html = DefaultHtml
          /\ page_blocks[i].description_stripped = <<>>

StrictlyIncreasing(blocks) ==
    \A i, j \in DOMAIN blocks :
        (i < j /\ SameKey(blocks[i], blocks[j]))
            => blocks[i].sort_order < blocks[j].sort_order

FirstOfKey(blocks, i) ==
    \A j \in DOMAIN blocks : j < i => ~SameKey(blocks[j], blocks[i])

\* C2 as stated: under block creations only, the sort_order values of the blocks
\* of one (project, page) increase strictly in creation order and the first
\* block of a (project, page) has exactly 65535.
C2_FirstBlockGets65535 ==
    /\ StrictlyIncreasing(page_blocks)
    /\ \A i \in DOMAIN page_blocks :
          FirstOfKey(page_blocks, i) => page_blocks[i].sort_order = DefaultSortOrder

\* C2 amended: under block creations only, the sort_order values of the blocks
\* of one (project, page) increase strictly in creation order, and the first
\* block of a (project, page) keeps the sort_order its caller built it with
\* (65535 when the caller gave none).
C2_IncreasingFromCallersValue ==
    [][ /\ StrictlyIncreasing(page_blocks')
        /\ Len(page_blocks') = Len(page_blocks) + 1 =>
              LET n == Len(page_blocks')
              IN  FirstOfKey(page_blocks', n) =>
                      page_blocks'[n].sort_order = last'.self.sort_order ]_vars

\* C2 witness: two blocks of (p1, g1), the first built with sort_order 5.
C2_Witness ==
    /\ Len(page_blocks) = 2
    /\ SameKey(page_blocks[1], page_blocks[2])
    /\ page_blocks[1].sort_order = 5
    /\ page_blocks[2].sort_order = 5 + SortOrderStep

\* the sort_order a created block b has, next to the blocks stored before it:
\* the largest of its (project, page) plus 10000, or `otherwise` when it has none
CreatedSortOrder(before, b, otherwise) ==
    IF \E j \in DOMAIN before : SameKey(before[j], b)
    THEN \E j \in DOMAIN before :
            /\ SameKey(before[j], b)
            /\ \A k \in DOMAIN before :
                  SameKey(before[k], b) => before[k].sort_order <= before[j].sort_order
            /\ b.sort_order = before[j].sort_order + SortOrderStep
    ELSE b.sort_order = otherwise

\* a save of a stored block leaves sort_order as the caller handed it over
UpdateKeepsSortOrder ==
    (last'.op = "PageBlock.update" /\ last'.outcome = "ok") =>
        /\ Len(page_blocks') = Len(page_blocks)
        /\ \A i \in DOMAIN page_blocks :
              page_blocks'[i] # page_blocks[i] =>
                  page_blocks'[i].sort_order = last'.self.sort_order

\* C3 as stated: a created block gets the largest sort_order of its (project,
\* page) plus 10000, or 65535 when that pair has no block; a save of a stored
\* block computes nothing.
C3_CreatedSortOrderOr65535 ==
    [][ /\ Len(page_blocks') = Len(page_blocks) + 1 =>
              CreatedSortOrder(page_blocks, page_blocks'[Len(page_blocks')],
                               DefaultSortOrder)
        /\ UpdateKeepsSortOrder ]_vars

\* C3 amended: a created block gets the largest sort_order of its (project,
\* page) plus 10000, or keeps the sort_order its caller built it with (the
\* field default 65535 when the caller gave none) when that pair has no block;
\* blocks of other pairs do not count, and a save of a stored block computes
\* nothing.
C3_CreatedSortOrderOrCallers ==
    [][ /\ Len(page_blocks') = Len(page_blocks) + 1 =>
              CreatedSortOrder(page_blocks, page_blocks'[Len(page_blocks')],
                               last'.self.sort_order)
        /\ UpdateKeepsSortOrder ]_vars

\* C3 witness: a block created behind a sibling of sort_order 65535 has 75535.
C3_Witness ==
    /\ last.op = "PageBlock.create" /\ last.outcome = "ok"
    /\ Len(page_blocks) = 2
    /\ SameKey(page_blocks[1], page_blocks[2])
    /\ page_blocks[1].sort_order = DefaultSortOrder
    /\ page_blocks[2].sort_order = DefaultSortOrder + SortOrderStep

\* C7: a block save with a completion time and an issue, in a project that has
\* a completed state, puts the issue in that state and changes no other issue.
C7_CompletionSetsIssueState ==
    [][ ( /\ last'.op \in BlockOps
          /\ last'.self.completed_at # NoneNum
          /\ last'.self.issue # None
          /\ \E s \in StateTable :
                s.group = "completed" /\ s.project = last'.self.project )
        => /\ \E s \in StateTable :
                 /\ s.group = "completed" /\ s.project = last'.self.project
                 /\ issues'[last'.self.issue] = s.id
           /\ \A o \in Issues \ {last'.self.issue} : issues'[o] = issues[o] ]_vars

\* C8: the completion step of a block save never raises: no block save ends in
\* an exception of that step, with or without a completed state in the project.
C8_CompletionNeverRaises ==
    last.op \in BlockOps => last.outcome \in {"ok", "IntegrityError"}

\* C10: a concurrent creation inserts with the maximum it read when it began,
\* whatever has been inserted since: the sort_order is that maximum plus 10000,
\* or the caller's value when it read none.
C10_InsertUsesMaximumReadEarlier ==
    [][ \A r \in Requests :
          ( /\ creators[r].pc = "queried"
            /\ creators'[r].pc = "idle"
            /\ Len(page_blocks') = Len(page_blocks) + 1 )
          => page_blocks'[Len(page_blocks')].sort_order =
                IF creators[r].largest # NoneNum
                THEN creators[r].largest + SortOrderStep
                ELSE creators[r].self.sort_order ]_vars

\* C10 witness: two blocks of one (project, page), created behind a third, have
\* the same sort_order.
C10_Witness ==
    /\ \A r \in Requests : creators[r].pc = "idle"
    /\ Len(page_blocks) = 3
    /\ SameKey(page_blocks[1], page_blocks[2])
    /\ SameKey(page_blocks[2], page_blocks[3])
    /\ page_blocks[2].sort_order = page_blocks[1].sort_order + SortOrderStep
    /\ page_blocks[3].sort_order = page_blocks[2].sort_order


Active(row) == row.deleted_at = NoneNum

\* C4: a ProjectPage (TeamPage) created while a non-deleted link of the same
\* (project, page) ((team, page)) exists fails with a uniqueness violation and
\* stores nothing, so no pair ever has two non-deleted links.
C4_OneActiveLinkPerPair ==
    [][ /\ \A i, j \in DOMAIN project_pages' :
              (i # j /\ Active(project_pages'[i]) /\ Active(project_pages'[j]))
                  => <<project_pages'[i].project, project_pages'[i].page>>
                       # <<project_pages'[j].project, project_pages'[j].page>>
        /\ \A i, j \in DOMAIN team_pages' :
              (i # j /\ Active(team_pages'[i]) /\ Active(team_pages'[j]))
                  => <<team_pages'[i].team, team_pages'[i].page>>
                       # <<team_pages'[j].team, team_pages'[j].page>>
        /\ ( /\ last'.op = "ProjectPage.create"
             /\ \E i \in DOMAIN project_pages :
                   /\ Active(project_pages[i])
                   /\ <<project_pages[i].project, project_pages[i].page>> = last'.key )
           => (last'.outcome = "IntegrityError" /\ project_pages' = project_pages)
        /\ ( /\ last'.op = "TeamPage.create"
             /\ \E i \in DOMAIN team_pages :
                   /\ Active(team_pages[i])
                   /\ <<team_pages[i].team, team_pages[i].page>> = last'.key )
           => (last'.outcome = "IntegrityError" /\ team_pages' = team_pages) ]_vars

\* C4 witness: a second ProjectPage of a pair with a non-deleted link was refused.
C4_Witness ==
    /\ last.op = "ProjectPage.create" /\ last.outcome = "IntegrityError"
    /\ \E i \in DOMAIN project_pages :
          /\ Active(project_pages[i])
          /\ <<project_pages[i].project, project_pages[i].page>> = last.key

\* C5: whatever links were created and soft-deleted before, the soft-deletion of
\* a non-deleted ProjectPage or TeamPage succeeds, and a creation is refused only
\* when a non-deleted link of its pair exists: soft-deleted rows block neither.
C5_SoftDeletedRowsNeverBlock ==
    /\ last.op \in {"ProjectPage.soft_delete", "TeamPage.soft_delete"}
          => last.outcome = "ok"
    /\ (last.op = "ProjectPage.create" /\ last.outcome = "IntegrityError")
          => \E i \in DOMAIN project_pages :
                /\ Active(project_pages[i])
                /\ <<project_pages[i].project, project_pages[i].page>> = last.key
    /\ (last.op = "TeamPage.create" /\ last.outcome = "IntegrityError")
          => \E i \in DOMAIN team_pages :
                /\ Active(team_pages[i])
                /\ <<team_pages[i].team, team_pages[i].page>> = last.key

\* C6 as stated: no (label, page) pair has two non-deleted PageLabel rows.
C6_OneActivePageLabelPerPair ==
    \A i, j \in DOMAIN page_labels :
        (i # j /\ Active(page_labels[i]) /\ Active(page_labels[j]))
            => <<page_labels[i].label, page_labels[i].page>>
                 # <<page_labels[j].label, page_labels[j].page>>

\* C6 amended: no uniqueness of (label, page) is enforced for PageLabel: the
\* creation and the soft-deletion of a PageLabel succeed whether or not a
\* non-deleted or a soft-deleted PageLabel of the same pair exists.
C6_PageLabelNeverRefused ==
    [][ /\ last'.op \in {"PageLabel.create", "PageLabel.soft_delete"}
              => last'.outcome = "ok"
        /\ last'.op = "PageLabel.create"
              => page_labels' = Append(page_labels,
                                       [label |-> last'.key[1], page |-> last'.key[2],
                                        deleted_at |-> NoneNum]) ]_vars

\* C6 witness: a PageLabel was created beside a non-deleted one of its pair.
C6_Witness ==
    /\ last.op = "PageLabel.create" /\ last.outcome = "ok"
    /\ Len(page_labels) = 2
    /\ Active(page_labels[1]) /\ Active(page_labels[2])
    /\ page_labels[1].label = page_labels[2].label
    /\ page_labels[1].page = page_labels[2].page

\* C9: a PageLog whose (page, transaction) a stored PageLog has is refused with
\* a uniqueness violation and the table is left as it was; any other is stored;
\* so no two PageLog rows share (page, transaction).
C9_PageLogUniquePerTransaction ==
    [][ /\ \A i, j \in DOMAIN page_logs' :
              i # j => <<page_logs'[i].page, page_logs'[i].transaction>>
                         # <<page_logs'[j].page, page_logs'[j].transaction>>
        /\ last'.op = "PageLog.create" =>
              IF \E i \in DOMAIN page_logs :
                    <<page_logs[i].page, page_logs[i].transaction>> = last'.key
              THEN last'.outcome = "IntegrityError" /\ page_logs' = page_logs
              ELSE /\ last'.outcome = "ok"
                   /\ page_logs' = Append(page_logs,
                                          [page |-> last'.key[1],
                                           transaction |-> last'.key[2],
                                           deleted_at |-> NoneNum]) ]_vars

\* C9 witness: a PageLog of a stored (page, transaction) was refused while the
\* page holds a second entry with another transaction.
C9_Witness ==
    /\ last.op = "PageLog.create" /\ last.outcome = "IntegrityError"
    /\ \E i, j \in DOMAIN page_logs :
          /\ <<page_logs[i].page, page_logs[i].transaction>> = last.key
          /\ page_logs[j].page = page_logs[i].page
          /\ page_logs[j].transaction # page_logs[i].transaction

=============================================================================
